---- MODULE Spec2Model ----
(* Holiday scheduler of src/index.js: the POST /schedule-holiday endpoint and   *)
(* the two cron callbacks (start-sweep, end-sweep), with the Discord helpers    *)
(* addHolidayRole, removeHolidayRole and sendDirectMessage.                      *)
(*                                                                             *)
(* Every `await` of a cron callback is a point where another callback may run: *)
(* a sweep is a small process whose pc names the await it is suspended at.     *)
(* node-cron invokes the callback on every tick, whether or not an earlier     *)
(* invocation has returned, so several sweeps of one task may be in flight.    *)
(*                                                                             *)
(* Instants are abstract: only their order matters. The clock moves between    *)
(* the dates of the holidays; any number of cron ticks may fall between two    *)
(* consecutive dates. A helper's effect on Discord takes place in one step, at *)
(* the call that mutates (roles.add, roles.remove, user.send); the outcome of  *)
(* every external call and what guild.members.me holds are chosen by the       *)
(* environment at each call.                                                   *)
EXTENDS Integers, Sequences, FiniteSets, Bags

\* ---------------------------------------------------------------- bounds
MaxRecords == 2     \* rows the holidays table may hold
MaxSweeps == 2      \* cron callbacks in flight at once (both tasks together)
MaxTime == 2        \* last instant of the clock; dates lie in 0..MaxTime-1
MaxDM == 2          \* direct messages counted per holiday and transition

\* ---------------------------------------------------------------- constants
RolePosition == 1   \* role.position of the holiday role in the guild

Users == {"u1", "u2"}
Reasons == {"rest"}
Times == 0..(MaxTime - 1)
Kinds == {"start", "end"}
Statuses == {"pending", "active", "completed"}

\* Outcomes of the external calls a helper awaits.
RoleFaults == {"none", "fetch", "norole", "mutate"}
DmFaults == {"none", "fetch", "send"}

VARIABLES
    holidays,   \* the `holidays` table: a sequence of rows, row i has id i
    sweeps,     \* the cron callbacks in flight: a bag of their local states
    clock,      \* the current instant (what moment() returns)
    roles,      \* accounts that hold the holiday role (member.roles.cache)
    delivered,  \* direct messages received, per holiday id and transition
    env         \* what Supabase and Discord may answer: the outcomes a call can have

vars == <<holidays, sweeps, clock, roles, delivered, env>>

Ids == 1..MaxRecords

\* guild.members.me as a helper finds it: the ManageRoles permission and the
\* position of the bot's highest role (at or above the holiday role's).
BotStates == [manageRoles : BOOLEAN, highest : {RolePosition, RolePosition + 1}]

\* A bot that may manage the holiday role.
GoodBot == [manageRoles |-> TRUE, highest |-> RolePosition + 1]

\* The answers the services may give: whether the due query of a task may return
\* an error, the faults the role call and the direct message for a holiday may
\* meet, the bot's standing in the guild, whether the update of a holiday may
\* return an error; `rows` is the table as it was when the answers were fixed.
Answers(q, r, b, d, u, rows) ==
    [query |-> q, role |-> r, bots |-> b, dm |-> d, update |-> u, rows |-> rows]

\* Any call may succeed or fail.
Free ==
    Answers([k \in Kinds |-> BOOLEAN], [n \in Ids |-> RoleFaults], BotStates,
            [n \in Ids |-> DmFaults], [n \in Ids |-> BOOLEAN], <<>>)

\* Every call succeeds.
Healthy ==
    Answers([k \in Kinds |-> {FALSE}], [n \in Ids |-> {"none"}], {GoodBot},
            [n \in Ids |-> {"none"}], [n \in Ids |-> {FALSE}], <<>>)

\* The local state of the callback of task k that has just captured `now`.
NewSweep(k, now) ==
    [kind |-> k, pc |-> "query", now |-> now, batch |-> <<>>, i |-> 0,
     roleOk |-> FALSE, dmSent |-> FALSE]

\* The callbacks in flight after one of them moves from `old` to `new`, or returns.
Moved(old, new) == (sweeps (-) SetToBag({old})) (+) SetToBag({new})
Returned(old) == sweeps (-) SetToBag({old})
Running == BagToSet(sweeps)

\* ---------------------------------------------------------------- helpers

\* addHolidayRole(userId): the result, the role holders afterwards and whether
\* member.roles.add was called. `fault` is what the Discord API does on this
\* call: "fetch" = guild or member fetch rejects, "norole" = the role is not in
\* the cache, "mutate" = roles.add rejects.
RoleResult(ok, rs, called) == [ok |-> ok, roles |-> rs, called |-> called]

addHolidayRoleNoHas(userId, rs, bot, fault) ==
    IF fault = "fetch" THEN RoleResult(FALSE, rs, FALSE)
    ELSE IF fault = "norole" THEN RoleResult(FALSE, rs, FALSE)
    ELSE IF ~bot.manageRoles THEN RoleResult(FALSE, rs, FALSE)
    ELSE IF bot.highest <= RolePosition THEN RoleResult(FALSE, rs, FALSE)
    ELSE IF fault = "mutate" THEN RoleResult(FALSE, rs, TRUE)
    ELSE RoleResult(TRUE, rs \cup {userId}, TRUE)

addHolidayRole(userId, rs, bot, fault) ==
    IF fault = "fetch" THEN RoleResult(FALSE, rs, FALSE)
    ELSE IF fault = "norole" THEN RoleResult(FALSE, rs, FALSE)
    ELSE IF userId \in rs THEN RoleResult(TRUE, rs, FALSE)
    ELSE IF ~bot.manageRoles THEN RoleResult(FALSE, rs, FALSE)
    ELSE IF bot.highest <= RolePosition THEN RoleResult(FALSE, rs, FALSE)
    ELSE IF fault = "mutate" THEN RoleResult(FALSE, rs, TRUE)
    ELSE RoleResult(TRUE, rs \cup {userId}, TRUE)

removeHolidayRoleNoRank(userId, rs, bot, fault) ==
    IF fault = "fetch" THEN RoleResult(FALSE, rs, FALSE)
    ELSE IF fault = "norole" THEN RoleResult(FALSE, rs, FALSE)
    ELSE IF userId \notin rs THEN RoleResult(TRUE, rs, FALSE)
    ELSE IF ~bot.manageRoles THEN RoleResult(FALSE, rs, FALSE)
    ELSE IF fault = "mutate" THEN RoleResult(FALSE, rs, TRUE)
    ELSE RoleResult(TRUE, rs \ {userId}, TRUE)

\* removeHolidayRole(userId): as above, for roles.remove.
removeHolidayRole(userId, rs, bot, fault) ==
    IF fault = "fetch" THEN RoleResult(FALSE, rs, FALSE)
    ELSE IF fault = "norole" THEN RoleResult(FALSE, rs, FALSE)
    ELSE IF userId \notin rs THEN RoleResult(TRUE, rs, FALSE)
    ELSE IF ~bot.manageRoles THEN RoleResult(FALSE, rs, FALSE)
    ELSE IF bot.highest <= RolePosition THEN RoleResult(FALSE, rs, FALSE)
    ELSE IF fault = "mutate" THEN RoleResult(FALSE, rs, TRUE)
    ELSE RoleResult(TRUE, rs \ {userId}, TRUE)

\* The messages counted for one holiday and transition: the count stops at MaxDM.
Counted(n) == IF n < MaxDM THEN n ELSE MaxDM

\* sendDirectMessage(userId, message): true iff users.fetch and user.send both
\* resolve; every successful call delivers one more message.
sendDirectMessage(fault) == fault = "none"

\* The rows a sweep selects: .eq('status', st).lt(field, now), in table order.
RECURSIVE DueFrom(_, _, _, _, _)
DueFrom(rows, st, field, now, n) ==
    IF n > Len(rows) THEN <<>>
    ELSE IF rows[n].status = st /\ rows[n][field] < now
         THEN <<rows[n].id>> \o DueFrom(rows, st, field, now, n + 1)
         ELSE DueFrom(rows, st, field, now, n + 1)

DueQueryLte(rows, st, field, now) ==
    DueFrom(rows, st, field, now + 1, 1)

DueQuery(rows, st, field, now) ==
    DueFrom(rows, st, field, now, 1)

\* The status a task selects, the date it compares, and the status it writes.
FromStatus(k) == IF k = "start" THEN "pending" ELSE "active"
DueField(k) == IF k = "start" THEN "start_time" ELSE "end_time"
ToStatus(k) == IF k = "start" THEN "active" ELSE "completed"

EitherOk(roleOk, dmSent) == roleOk \/ dmSent

\* if (roleAdded && dmSent) / if (roleRemoved && dmSent)
BothOk(roleOk, dmSent) == roleOk /\ dmSent

\* An update that answers without error and writes nothing.
UpdateNothing(rows, id, st) == rows

\* .update({ status }) with no .eq('id', id): every row is written.
UpdateEveryRow(rows, id, st) == [n \in DOMAIN rows |-> [rows[n] EXCEPT !.status = st]]

\* .delete().eq('id', id), the alternative the source names in a comment.
UpdateDelete(rows, id, st) == SelectSeq(rows, LAMBDA r : r.id # id)

\* .update({ status }).eq('id', id): the only condition is the id.
UpdateStatus(rows, id, st) ==
    [n \in DOMAIN rows |-> IF rows[n].id = id
                           THEN [rows[n] EXCEPT !.status = st]
                           ELSE rows[n]]

\* The for-loop goes on to the next holiday of the batch, or the callback returns.
Continue(sw) ==
    IF sw.i < Len(sw.batch)
    THEN [sw EXCEPT !.pc = "role", !.i = sw.i + 1, !.roleOk = FALSE, !.dmSent = FALSE]
    ELSE [sw EXCEPT !.pc = "done"]

AbortSweep(sw) == [sw EXCEPT !.pc = "done"]

\* A holiday whose actions or whose update failed is logged; the loop goes on.
OnFailed(sw) == Continue(sw)

CurrentFirst(sw) == sw.batch[1]

\* The holiday a running sweep is working on.
Current(sw) == sw.batch[sw.i]

\* The callbacks in flight after `old` has taken a step to `new`; one that has
\* reached "done" has returned.
Step(old, new) == IF new.pc = "done" THEN Returned(old) ELSE Moved(old, new)

AfterQueryIgnoringError(sw, error, rows) ==
    IF rows = <<>> THEN [sw EXCEPT !.pc = "done"]
    ELSE [sw EXCEPT !.pc = "role", !.batch = rows, !.i = 1]

\* if (error) { console.error(...); return; } then the loop over the rows.
AfterQuery(sw, error, rows) ==
    IF error THEN [sw EXCEPT !.pc = "done"]
    ELSE IF rows = <<>> THEN [sw EXCEPT !.pc = "done"]
    ELSE [sw EXCEPT !.pc = "role", !.batch = rows, !.i = 1]

\* ---------------------------------------------------------------- intake

\* A date field of the request body: absent, text that is no date, or a date
\* in the format YYYY/MM/DD HH:mm, named by its minute.
DateInputs ==
    {[form |-> "missing", minute |-> 0], [form |-> "garbage", minute |-> 0]}
        \cup {[form |-> "date", minute |-> m] : m \in Times}

\* moment.tz(text, 'YYYY/MM/DD HH:mm', TIMEZONE): the instant, or an invalid moment.
ParseMoment(d) ==
    IF d.form = "date" THEN [valid |-> TRUE, at |-> d.minute]
    ELSE [valid |-> FALSE, at |-> 0]

ValidateBefore(discordUserId, reason, startDate, endDate) ==
    IF discordUserId = "" \/ reason = "" \/ startDate.form = "missing"
        \/ endDate.form = "missing" THEN 400
    ELSE IF ~ParseMoment(startDate).valid \/ ~ParseMoment(endDate).valid THEN 400
    ELSE IF ParseMoment(endDate).at < ParseMoment(startDate).at THEN 400
    ELSE 200

\* The status the request handler answers with, 200 when it goes on to insert.
Validate(discordUserId, reason, startDate, endDate) ==
    IF discordUserId = "" \/ reason = "" \/ startDate.form = "missing"
        \/ endDate.form = "missing" THEN 400
    ELSE IF ~ParseMoment(startDate).valid \/ ~ParseMoment(endDate).valid THEN 400
    ELSE IF ParseMoment(endDate).at <= ParseMoment(startDate).at THEN 400
    ELSE 200

NewRowActive(id, discordUserId, reason, startDate, endDate) ==
    [id |-> id, discord_user_id |-> discordUserId, reason |-> reason,
     start_time |-> ParseMoment(startDate).at, end_time |-> ParseMoment(endDate).at,
     status |-> "active"]

\* The row the handler inserts; the table assigns the id.
NewRow(id, discordUserId, reason, startDate, endDate) ==
    [id |-> id, discord_user_id |-> discordUserId, reason |-> reason,
     start_time |-> ParseMoment(startDate).at, end_time |-> ParseMoment(endDate).at,
     status |-> "pending"]

\* POST /schedule-holiday with a body that passes validation and an insert that
\* succeeds. A rejected request and a failed insert change nothing.
ScheduleHoliday ==
    /\ Len(holidays) < MaxRecords
    /\ \E u \in Users \cup {""}, r \in Reasons \cup {""}, sd \in DateInputs,
          ed \in DateInputs, insertError \in BOOLEAN :
          /\ Validate(u, r, sd, ed) = 200
          /\ ~insertError
          /\ holidays' = Append(holidays, NewRow(Len(holidays) + 1, u, r, sd, ed))
    /\ UNCHANGED <<sweeps, clock, roles, delivered, env>>

\* ---------------------------------------------------------------- clock

Advance ==
    /\ clock < MaxTime
    /\ clock' = clock + 1
    /\ UNCHANGED <<holidays, sweeps, roles, delivered, env>>

\* ---------------------------------------------------------------- sweeps

\* A cron tick of task k: the callback starts, captures now and awaits the query.
\* node-cron starts it whether or not an earlier callback of the task has returned.
Tick(k) ==
    /\ BagCardinality(sweeps) < MaxSweeps
    /\ sweeps' = sweeps (+) SetToBag({NewSweep(k, clock)})
    /\ UNCHANGED <<holidays, clock, roles, delivered, env>>

\* The due query resolves: with an error the callback returns, otherwise the
\* loop starts on the first row (or returns on an empty result).
Query(sw) ==
    /\ sw.pc = "query"
    /\ \E error \in env.query[sw.kind] :
          LET rows == DueQuery(holidays, FromStatus(sw.kind), DueField(sw.kind), sw.now)
          IN sweeps' = Step(sw, AfterQuery(sw, error, rows))
    /\ UNCHANGED <<holidays, clock, roles, delivered, env>>

\* await addHolidayRole(...) / await removeHolidayRole(...)
RoleAction(sw) ==
    /\ sw.pc = "role"
    /\ \E fault \in env.role[Current(sw)], bot \in env.bots :
          LET h == holidays[Current(sw)]
              res == IF sw.kind = "start"
                     THEN addHolidayRole(h.discord_user_id, roles, bot, fault)
                     ELSE removeHolidayRole(h.discord_user_id, roles, bot, fault)
          IN /\ roles' = res.roles
             /\ sweeps' = Moved(sw, [sw EXCEPT !.pc = "dm", !.roleOk = res.ok])
    /\ UNCHANGED <<holidays, clock, delivered, env>>

\* await sendDirectMessage(...), then the test of both results.
SendDM(sw) ==
    /\ sw.pc = "dm"
    /\ \E fault \in env.dm[Current(sw)] :
          LET key == <<Current(sw), sw.kind>>
              sent == sendDirectMessage(fault)
          IN /\ delivered' = IF sent THEN [delivered EXCEPT ![key] = Counted(@ + 1)]
                             ELSE delivered
             /\ sweeps' = IF BothOk(sw.roleOk, sent)
                          THEN Moved(sw, [sw EXCEPT !.pc = "update", !.dmSent = sent])
                          ELSE Step(sw, OnFailed(sw))
    /\ UNCHANGED <<holidays, clock, roles, env>>

\* await supabase...update({ status }).eq('id', holiday.id)
Update(sw) ==
    /\ sw.pc = "update"
    /\ \E updateError \in env.update[Current(sw)] :
          IF updateError
          THEN /\ holidays' = holidays
               /\ sweeps' = Step(sw, OnFailed(sw))
          ELSE /\ holidays' = UpdateStatus(holidays, Current(sw), ToStatus(sw.kind))
               /\ sweeps' = Step(sw, Continue(sw))
    /\ UNCHANGED <<clock, roles, delivered, env>>

\* ---------------------------------------------------------------- system

Init ==
    /\ holidays = <<>>
    /\ sweeps = EmptyBag
    /\ clock = 0
    /\ roles = {}
    /\ delivered = [key \in Ids \X Kinds |-> 0]
    /\ env = Free

Next ==
    \/ ScheduleHoliday
    \/ Advance
    \/ \E k \in Kinds : Tick(k)
    \/ \E sw \in Running : Query(sw)
    \/ \E sw \in Running : RoleAction(sw)
    \/ \E sw \in Running : SendDM(sw)
    \/ \E sw \in Running : Update(sw)

Spec == Init /\ [][Next]_vars

\* The callbacks of task k in flight.
InFlight(k) ==
    BagCardinality([sw \in {x \in Running : x.kind = k} |-> sweeps[sw]])

\* The same program when every sweep returns before the next tick of its task
\* (no external call takes a minute): ticks find no sweep of their task running.
TickAlone(k) == InFlight(k) = 0 /\ Tick(k)

NextSeq ==
    \/ ScheduleHoliday
    \/ Advance
    \/ \E k \in Kinds : TickAlone(k)
    \/ \E sw \in Running : Query(sw)
    \/ \E sw \in Running : RoleAction(sw)
    \/ \E sw \in Running : SendDM(sw)
    \/ \E sw \in Running : Update(sw)

SpecSeq == Init /\ [][NextSeq]_vars

\* The services recover: from here on every call succeeds.
Heal ==
    /\ env = Free
    /\ env' = Healthy
    /\ UNCHANGED <<holidays, sweeps, clock, roles, delivered>>

\* A step of a running callback of task k: one of its awaits resolves.
SweepStep(k) ==
    \E sw \in Running :
        /\ sw.kind = k
        /\ (Query(sw) \/ RoleAction(sw) \/ SendDM(sw) \/ Update(sw))

NextLive ==
    \/ ScheduleHoliday
    \/ Advance
    \/ \E k \in Kinds : TickAlone(k)
    \/ \E k \in Kinds : SweepStep(k)
    \/ Heal

\* node-cron fires each task every minute, and every awaited call of a callback
\* resolves or rejects in the end.
Fairness ==
    \A k \in Kinds : WF_vars(TickAlone(k)) /\ WF_vars(SweepStep(k))

SpecLive == Init /\ [][NextLive]_vars /\ Fairness

\* The same, when the due query of a task fails every time (Supabase does not
\* answer that task) or never.
Outages ==
    {[Free EXCEPT !.query = q] : q \in [Kinds -> {{TRUE}, {FALSE}}]}

InitOutage ==
    /\ holidays = <<>>
    /\ sweeps = EmptyBag
    /\ clock = 0
    /\ roles = {}
    /\ delivered = [key \in Ids \X Kinds |-> 0]
    /\ env \in Outages

SpecOutage == InitOutage /\ [][NextSeq]_vars

\* Tables the handler can have built before the first tick: rows in insertion
\* order, all pending, with periods that may end at different instants.
Periods == {p \in (0..MaxTime) \X (0..MaxTime) : p[1] < p[2]}

PendingRow(id, u, p) ==
    [id |-> id, discord_user_id |-> u, reason |-> "rest",
     start_time |-> p[1], end_time |-> p[2], status |-> "pending"]

Tables ==
    UNION {{[n \in 1..len |-> PendingRow(n, us[n], ps[n])] :
               us \in [1..len -> Users], ps \in [1..len -> Periods]} :
           len \in 0..MaxRecords}

\* The program with such a table, sweeps that never overlap, and services that
\* answer every call without error.
InitOverlap ==
    /\ holidays \in Tables
    /\ sweeps = EmptyBag
    /\ clock = 0
    /\ roles = {}
    /\ delivered = [key \in Ids \X Kinds |-> 0]
    /\ env = Healthy

SpecOverlap == InitOverlap /\ [][NextSeq]_vars

\* Full tables in which some rows have been activated, the role holders that go
\* with them, and answers that are settled per holiday: each call for a holiday
\* either succeeds or meets the one fault, however the callbacks interleave.
StartedTables ==
    {[n \in Ids |-> [PendingRow(n, us[n], ps[n]) EXCEPT !.status = st[n]]] :
        us \in [Ids -> Users], ps \in [Ids -> Periods],
        st \in [Ids -> {"pending", "active"}]}

HoldersOf(rows) ==
    {rows[n].discord_user_id : n \in {x \in DOMAIN rows : rows[x].status = "active"}}

Settled(rows) ==
    {Answers([k \in Kinds |-> {FALSE}], r, {GoodBot}, d, u, rows) :
        r \in [Ids -> {{"none"}, {"fetch"}}],
        d \in [Ids -> {{"none"}, {"send"}}],
        u \in [Ids -> {{FALSE}, {TRUE}}]}

\* Both tasks tick in the same minute: one start-sweep and one end-sweep run
\* side by side on such a table.
InitIso ==
    /\ holidays \in StartedTables
    /\ clock \in 1..MaxTime
    /\ sweeps = SetToBag({NewSweep("start", clock), NewSweep("end", clock)})
    /\ roles = HoldersOf(holidays)
    /\ delivered = [key \in Ids \X Kinds |-> 0]
    /\ env \in Settled(holidays)

NextIso ==
    \/ \E sw \in Running : Query(sw)
    \/ \E sw \in Running : RoleAction(sw)
    \/ \E sw \in Running : SendDM(sw)
    \/ \E sw \in Running : Update(sw)

SpecIso == InitIso /\ [][NextIso]_vars

\* One whole sweep of task k at instant now, run alone on a table and its role
\* holders: the loop of the callback with the settled answers.
Only(S) == CHOOSE x \in S : TRUE

RECURSIVE RunBatch(_, _, _, _)
RunBatch(st, batch, k, i) ==
    IF i > Len(batch) THEN st
    ELSE LET id == batch[i]
             u == st.rows[id].discord_user_id
             res == IF k = "start"
                    THEN addHolidayRole(u, st.roles, Only(env.bots), Only(env.role[id]))
                    ELSE removeHolidayRole(u, st.roles, Only(env.bots), Only(env.role[id]))
             sent == sendDirectMessage(Only(env.dm[id]))
             rows == IF BothOk(res.ok, sent) /\ ~Only(env.update[id])
                     THEN UpdateStatus(st.rows, id, ToStatus(k))
                     ELSE st.rows
         IN RunBatch([rows |-> rows, roles |-> res.roles], batch, k, i + 1)

RunSweep(st, k, now) ==
    IF Only(env.query[k]) THEN st
    ELSE RunBatch(st, DueQuery(st.rows, FromStatus(k), DueField(k), now), k, 1)

TypeOK ==
    /\ Len(holidays) <= MaxRecords
    /\ \A n \in DOMAIN holidays :
          /\ holidays[n].id = n
          /\ holidays[n].status \in Statuses
    /\ clock \in 0..MaxTime
    /\ roles \subseteq Users
    /\ BagCardinality(sweeps) <= MaxSweeps
    /\ env.bots \subseteq BotStates

\* ---------------------------------------------------------------- properties

Rank(st) == IF st = "pending" THEN 0 ELSE IF st = "active" THEN 1 ELSE 2

\* The callback in local state sw takes this step.
Stepped(sw) == CopiesIn(sw, sweeps') < CopiesIn(sw, sweeps)

\* The callback in local state sw writes the status of its current holiday in
\* this step or gives the write up.
AtUpdate(sw) == sw.pc = "update" /\ Stepped(sw)

\* The accounts with exactly one holiday in the table.
OnlyHolidayOf(n) ==
    \A m \in DOMAIN holidays :
        holidays[m].discord_user_id = holidays[n].discord_user_id => m = n

\* C1: the persisted status of a holiday never moves backward (never from active
\* to pending, never from completed to active or pending), whatever the
\* interleaving of start-sweep and end-sweep ticks.
C1_StatusNeverMovesBackward ==
    [][\A n \in DOMAIN holidays :
          Rank(holidays'[n].status) >= Rank(holidays[n].status)]_vars

C3_SuccessAdvancesOneStep ==
    [][\A sw \in Running :
          AtUpdate(sw) =>
              Rank(holidays'[Current(sw)].status)
                  = Rank(holidays[Current(sw)].status) + 1]_vars

\* C4: a holiday whose actions fail on one sweep and succeed on the next is in
\* the next status afterwards and its account has received the notification of
\* that transition exactly once.
C4_RetryNotifiesOnce ==
    \A n \in DOMAIN holidays :
        /\ holidays[n].status = "active" => delivered[<<n, "start">>] = 1
        /\ holidays[n].status = "completed" => delivered[<<n, "end">>] = 1

\* C5: at most one sweep of each task is in flight at any time.
C5_OneSweepPerTask ==
    \A k \in Kinds : InFlight(k) <= 1

\* C6: a status write takes effect only if the stored status still equals the
\* status the sweep selected (pending for the start-sweep, active for the
\* end-sweep); otherwise the stored status is left as it is.
C6_GuardedWrite ==
    [][\A sw \in Running :
          (AtUpdate(sw) /\ holidays[Current(sw)].status # FromStatus(sw.kind)) =>
              holidays'[Current(sw)].status = holidays[Current(sw)].status]_vars

\* C7: a status is written to active only by a sweep whose captured instant is
\* strictly after the holiday's start_time, and to completed only by one whose
\* captured instant is strictly after its end_time; every holiday a sweep has
\* selected has its boundary strictly before the sweep's instant.
C7_DueTime ==
    [][/\ \A n \in DOMAIN holidays :
             holidays'[n].status # holidays[n].status =>
                \E sw \in Running :
                    /\ AtUpdate(sw) /\ Current(sw) = n
                    /\ holidays'[n].status = ToStatus(sw.kind)
                    /\ holidays[n][DueField(sw.kind)] < sw.now
       /\ \A sw \in BagToSet(sweeps') :
             \A j \in 1..Len(sw.batch) :
                holidays'[sw.batch[j]][DueField(sw.kind)] < sw.now]_vars

\* C7 witness: a holiday has been taken through both transitions.
C7_Witness ==
    \E n \in DOMAIN holidays : holidays[n].status = "completed"

\* C8: the only status writes that change a holiday are pending to active and
\* active to completed.
C8_OnlyForwardSteps ==
    [][\A n \in DOMAIN holidays :
          holidays'[n].status # holidays[n].status =>
              \/ holidays[n].status = "pending" /\ holidays'[n].status = "active"
              \/ holidays[n].status = "active" /\ holidays'[n].status = "completed"]_vars

\* C9 as claimed: whenever no sweep is running, an account whose only holiday is
\* pending does not hold the role, and one whose only holiday is active holds it.
C9_MarkerAgreesWithStatus ==
    sweeps = EmptyBag =>
        \A n \in DOMAIN holidays :
            OnlyHolidayOf(n) =>
                /\ holidays[n].status = "pending" =>
                      holidays[n].discord_user_id \notin roles
                /\ holidays[n].status = "active" =>
                      holidays[n].discord_user_id \in roles

\* C9 as amended: a status is written to active only by a start-sweep iteration
\* whose addHolidayRole returned true, and to completed only by an end-sweep
\* iteration whose removeHolidayRole returned true.
C9_WriteFollowsMarker ==
    [][\A n \in DOMAIN holidays :
          /\ (holidays'[n].status = "active" /\ holidays[n].status # "active") =>
                \E sw \in Running :
                    AtUpdate(sw) /\ Current(sw) = n /\ sw.kind = "start" /\ sw.roleOk
          /\ (holidays'[n].status = "completed" /\ holidays[n].status # "completed") =>
                \E sw \in Running :
                    AtUpdate(sw) /\ Current(sw) = n /\ sw.kind = "end" /\ sw.roleOk]_vars

\* C9 witness: no sweep is running and a holiday written active has its account
\* holding the role.
C9_Witness ==
    /\ sweeps = EmptyBag
    /\ \E n \in DOMAIN holidays :
          holidays[n].status = "active" /\ holidays[n].discord_user_id \in roles

\* C10: a step of a sweep on one holiday changes no other row, and whatever the
\* outcome of that step the sweep goes on: it stays on the holiday or moves to
\* the next one of its batch, and returns only after the last.
C10_FailureIsolation ==
    [][\A sw \in Running :
          (sw.pc \in {"role", "dm", "update"} /\ Stepped(sw)) =>
              /\ \A n \in DOMAIN holidays :
                    n # Current(sw) => holidays'[n] = holidays[n]
              /\ sw.i < Len(sw.batch) =>
                    \E nx \in BagToSet(sweeps') :
                        /\ CopiesIn(nx, sweeps') > CopiesIn(nx, sweeps)
                        /\ nx.kind = sw.kind /\ nx.now = sw.now /\ nx.batch = sw.batch
                        /\ \/ nx.i = sw.i /\ nx.pc \in {"dm", "update"}
                           \/ nx.i = sw.i + 1 /\ nx.pc = "role"]_vars

\* C10 witness: a start-sweep is on the second holiday of its batch while the
\* first is still pending.
C10_Witness ==
    \E sw \in Running :
        /\ sw.kind = "start" /\ sw.i = 2
        /\ holidays[sw.batch[1]].status = "pending"

\* The account of row n.
UserOf(n) == holidays[n].discord_user_id

\* The callback in local state sw has returned in this step.
Gone == BagCardinality(sweeps') < BagCardinality(sweeps)

\* A callback has come to local state nx in this step.
Arrived(nx) == CopiesIn(nx, sweeps') > CopiesIn(nx, sweeps)

\* C13: every row of the table has end_time strictly after start_time: a
\* request whose end is equal to or before its start inserts nothing.
C13_EndAfterStart ==
    \A n \in DOMAIN holidays : holidays[n].end_time > holidays[n].start_time

\* C13 witness: a row has been inserted whose end is the instant after its start.
C13_Witness ==
    \E n \in DOMAIN holidays : holidays[n].end_time = holidays[n].start_time + 1

\* C14 as claimed: with the same bot and no failing Discord call, a second
\* addHolidayRole (removeHolidayRole) leaves the role holders as the first left
\* them, returns true and does not call roles.add (roles.remove).
C14_SecondCallSucceeds ==
    \A u \in Users, bot \in BotStates :
        LET a1 == addHolidayRole(u, roles, bot, "none")
            a2 == addHolidayRole(u, a1.roles, bot, "none")
            r1 == removeHolidayRole(u, roles, bot, "none")
            r2 == removeHolidayRole(u, r1.roles, bot, "none")
        IN /\ a2.roles = a1.roles /\ a2.ok /\ ~a2.called
           /\ r2.roles = r1.roles /\ r2.ok /\ ~r2.called

\* C14 as amended: after an addHolidayRole (removeHolidayRole) that returned
\* true, a second call for the same account leaves the role holders unchanged
\* and does not call roles.add (roles.remove), whatever the bot's rights; it
\* returns true unless its guild, member or role lookup fails.
C14_MarkerIdempotent ==
    \A u \in Users, b1 \in BotStates, f1 \in RoleFaults :
        LET a1 == addHolidayRole(u, roles, b1, f1)
            r1 == removeHolidayRole(u, roles, b1, f1)
        IN /\ a1.ok =>
                 \A b2 \in BotStates, f2 \in RoleFaults :
                     LET a2 == addHolidayRole(u, a1.roles, b2, f2)
                     IN /\ a2.roles = a1.roles /\ ~a2.called
                        /\ f2 \notin {"fetch", "norole"} => a2.ok
           /\ r1.ok =>
                 \A b2 \in BotStates, f2 \in RoleFaults :
                     LET r2 == removeHolidayRole(u, r1.roles, b2, f2)
                     IN /\ r2.roles = r1.roles /\ ~r2.called
                        /\ f2 \notin {"fetch", "norole"} => r2.ok

\* C14 witness: a start-sweep has had addHolidayRole return true for the second
\* holiday of its batch after it activated the first, both of the same account.
C14_Witness ==
    \E sw \in Running :
        /\ sw.kind = "start" /\ sw.i = 2 /\ sw.pc \in {"dm", "update"} /\ sw.roleOk
        /\ UserOf(sw.batch[1]) = UserOf(sw.batch[2])
        /\ holidays[sw.batch[1]].status = "active"

\* The bot lacks ManageRoles or its highest role is not above the holiday role.
Lacks(bot) == ~bot.manageRoles \/ bot.highest <= RolePosition

\* C15: when the bot lacks the right or the rank, a grant to an account without
\* the role and a revoke from an account with it return false, do not call
\* roles.add / roles.remove and leave the role holders as they are; a sweep
\* whose role action returned false does not reach the status update.
C15_PermissionGate ==
    /\ \A u \in Users, bot \in BotStates, f \in RoleFaults :
          Lacks(bot) =>
             LET a == addHolidayRole(u, roles, bot, f)
                 r == removeHolidayRole(u, roles, bot, f)
             IN /\ u \notin roles => ~a.ok /\ ~a.called /\ a.roles = roles
                /\ u \in roles => ~r.ok /\ ~r.called /\ r.roles = roles
    /\ \A sw \in Running : sw.pc = "update" => sw.roleOk

\* C15 witness: an end-sweep's removeHolidayRole has returned false for an
\* account that holds the role.
C15_Witness ==
    \E sw \in Running :
        /\ sw.kind = "end" /\ sw.pc = "dm" /\ ~sw.roleOk
        /\ UserOf(Current(sw)) \in roles

\* C16: within a sweep the role action, the direct message and the status
\* update of holiday i of the batch take place in this order and each acts on
\* holiday i alone; the sweep comes to holiday i + 1 only after them.
C16_OneAfterAnother ==
    [][\A sw \in Running :
          Stepped(sw) =>
              LET id == sw.batch[sw.i]
                  key == <<id, sw.kind>>
                  toNext ==
                      \/ Gone /\ sw.i = Len(sw.batch)
                      \/ Arrived([sw EXCEPT !.pc = "role", !.i = sw.i + 1,
                                            !.roleOk = FALSE, !.dmSent = FALSE])
              IN /\ sw.pc = "role" =>
                       /\ \A u \in Users : u # UserOf(id) => (u \in roles' <=> u \in roles)
                       /\ delivered' = delivered /\ holidays' = holidays
                       /\ \E ok \in BOOLEAN :
                             Arrived([sw EXCEPT !.pc = "dm", !.roleOk = ok])
                 /\ sw.pc = "dm" =>
                       /\ roles' = roles /\ holidays' = holidays
                       /\ \A k \in DOMAIN delivered :
                             k # key => delivered'[k] = delivered[k]
                       /\ \/ Arrived([sw EXCEPT !.pc = "update", !.dmSent = TRUE])
                          \/ toNext
                 /\ sw.pc = "update" =>
                       /\ roles' = roles /\ delivered' = delivered
                       /\ \A n \in DOMAIN holidays :
                             n # id => holidays'[n] = holidays[n]
                       /\ toNext]_vars

\* C16 witness: a sweep is about to write the status of the second holiday of
\* its batch and the first one has been written.
C16_Witness ==
    \E sw \in Running :
        /\ sw.i = 2 /\ sw.pc = "update"
        /\ holidays[sw.batch[1]].status = ToStatus(sw.kind)

\* C17: no step removes a row, and a step changes nothing of an existing row
\* but its status.
C17_OnlyStatusChanges ==
    [][/\ Len(holidays') >= Len(holidays)
       /\ \A n \in DOMAIN holidays :
             [holidays'[n] EXCEPT !.status = holidays[n].status] = holidays[n]]_vars

\* C17 witness: the table is full and a row has been written by both sweeps.
C17_Witness ==
    /\ Len(holidays) = MaxRecords
    /\ \E n \in DOMAIN holidays : holidays[n].status = "completed"

\* C18: a step that adds a row adds one row, with status pending.
C18_CreatedPending ==
    [][Len(holidays') > Len(holidays) =>
          /\ Len(holidays') = Len(holidays) + 1
          /\ holidays'[Len(holidays')].status = "pending"]_vars

\* C18 witness: a row has been inserted and no sweep has run yet.
C18_Witness ==
    /\ Len(holidays) >= 1 /\ sweeps = EmptyBag /\ clock = 0
    /\ \A n \in DOMAIN holidays : holidays[n].status = "pending"

\* The due query of task k fails.
QueryFails(k) == env.query[k] = {TRUE}

\* C20: a sweep whose due query fails returns at once: the step changes no row,
\* no role holder and sends no message, no callback of the task is left in
\* flight, so the next tick is not held back, and every callback a tick starts
\* begins at the query with the current instant and nothing carried over.
C20_FailedQueryDoesNothing ==
    [][/\ \A sw \in Running :
             (Stepped(sw) /\ sw.pc = "query" /\ QueryFails(sw.kind)) =>
                 /\ holidays' = holidays /\ roles' = roles /\ delivered' = delivered
                 /\ Gone
                 /\ (InFlight(sw.kind) = 0)'
       /\ \A nx \in BagToSet(sweeps') :
             (Arrived(nx) /\ nx.pc = "query") => nx = NewSweep(nx.kind, clock)]_vars

\* C20 witness: the end-sweep's query fails while a holiday is active and past
\* its end, after the start-sweep (whose query works) has activated it.
C20_Witness ==
    /\ QueryFails("end") /\ ~QueryFails("start")
    /\ \E sw \in Running :
          /\ sw.kind = "end" /\ sw.pc = "query"
          /\ DueQuery(holidays, "active", "end_time", sw.now) # <<>>

\* Two periods overlap in time.
Overlap(n, m) ==
    /\ holidays[n].start_time < holidays[m].end_time
    /\ holidays[m].start_time < holidays[n].end_time

\* C19: an account with two overlapping periods holds the holiday role as long
\* as one of them is active and its end_time is not yet due.
C19_MarkerKeptWhileActive ==
    \A n \in DOMAIN holidays, m \in DOMAIN holidays :
        (/\ n # m /\ UserOf(n) = UserOf(m) /\ Overlap(n, m)
         /\ holidays[n].status = "active" /\ holidays[n].end_time >= clock)
            => UserOf(n) \in roles

\* The table and the role holders the two sweeps started from.
Before == [rows |-> env.rows, roles |-> HoldersOf(env.rows)]

\* The rows a sweep of task k can come to select at instant now: rows in the
\* task's status, and rows the other task can first bring into it.
Reach(k, now) ==
    {n \in DOMAIN env.rows :
        /\ env.rows[n][DueField(k)] < now
        /\ \/ env.rows[n].status = FromStatus(k)
           \/ k = "end" /\ env.rows[n].status = "pending"
                        /\ env.rows[n].start_time < now}

\* C12 as claimed: the due pending rows and the due active rows are two disjoint
\* sets in every table, so for every table the table after both sweeps have
\* returned is the table after the start-sweep then the end-sweep, and the table
\* after the end-sweep then the start-sweep.
C12_AnyDueSets ==
    sweeps = EmptyBag =>
        /\ holidays = RunSweep(RunSweep(Before, "start", clock), "end", clock).rows
        /\ holidays = RunSweep(RunSweep(Before, "end", clock), "start", clock).rows

\* C12 as amended: when the rows the start-sweep and the end-sweep can select are disjoint
\* and the answers for each row are settled, the table after both have returned,
\* however their steps interleaved, is the table after the start-sweep then the
\* end-sweep, and the table after the end-sweep then the start-sweep.
C12_SweepsCommute ==
    (sweeps = EmptyBag /\ Reach("start", clock) \cap Reach("end", clock) = {}) =>
        /\ holidays = RunSweep(RunSweep(Before, "start", clock), "end", clock).rows
        /\ holidays = RunSweep(RunSweep(Before, "end", clock), "start", clock).rows

\* C12 witness: both sweeps have returned, the start-sweep having activated one
\* row and the end-sweep having completed another.
C12_Witness ==
    /\ sweeps = EmptyBag
    /\ Reach("start", clock) \cap Reach("end", clock) = {}
    /\ \E n \in DOMAIN holidays, m \in DOMAIN holidays :
          /\ env.rows[n].status = "pending" /\ holidays[n].status = "active"
          /\ env.rows[m].status = "active" /\ holidays[m].status = "completed"

\* Row n exists in status st with the date of `field` before the current instant.
DueIn(n, st, field) ==
    /\ n \in DOMAIN holidays
    /\ holidays[n].status = st
    /\ holidays[n][field] < clock

\* Row n exists in status st.
HasStatus(n, st) == n \in DOMAIN holidays /\ holidays[n].status = st

\* C11: every due query that answers selects all rows that are still in the
\* task's status and due, whatever failed for them before; and if from some
\* point on every call succeeds, every due pending row eventually becomes
\* active and every due active row eventually becomes completed.
C11_EventualAdvance ==
    /\ [][\A sw \in Running :
             (Stepped(sw) /\ sw.pc = "query" /\ ~Gone) =>
                 Arrived([sw EXCEPT !.pc = "role", !.i = 1,
                             !.batch = DueQuery(holidays, FromStatus(sw.kind),
                                                DueField(sw.kind), sw.now)])]_vars
    /\ <>[](env = Healthy) =>
          \A n \in Ids :
              /\ DueIn(n, "pending", "start_time") ~> HasStatus(n, "active")
              /\ DueIn(n, "active", "end_time") ~> HasStatus(n, "completed")

\* C11 witness: after the services recovered, a row whose start notification
\* was delivered twice (a failed attempt came before the one that activated
\* it) has been completed.
C11_Witness ==
    /\ env = Healthy
    /\ \E n \in DOMAIN holidays :
          /\ holidays[n].status = "completed"
          /\ delivered[<<n, "start">>] = 2

====
